---- MODULE Spec2Model ----
(***************************************************************************)
(* Model of the PingSource adapter, pkg/adapter/ping/adapter.go.           *)
(*                                                                         *)
(* The adapter parses a cron schedule, registers cronTick as the only job  *)
(* of a cron scheduler, starts the scheduler, blocks on the stop channel,  *)
(* stops the scheduler and returns.  cronTick builds one cloud event       *)
(* (data = message(a.Data)) and sends it through the injected client with  *)
(* an exponential-backoff retry configuration.                             *)
(*                                                                         *)
(* Text is modelled at the level of lexemes: a schedule is the sequence of *)
(* its whitespace-separated fields, a payload is the sequence of its JSON  *)
(* lexemes.  Time is counted in minutes, the granularity of a standard     *)
(* (five field) cron expression.                                           *)
(***************************************************************************)
EXTENDS Integers, Sequences, FiniteSets, TLC

VARIABLES
    Schedule,     \* pingAdapter.Schedule: the schedule expression
    Data,         \* pingAdapter.Data: the payload
    startPc,      \* position of start(): "init" | "waiting" | "stopping" | "returned"
    startRet,     \* value returned by start(): "none" | "nil" | "err"
    cronRunning,  \* the cron scheduler is started and not stopped
    stopFired,    \* stopCh is closed (the cancellation signal has fired)
    now,          \* wall clock, minutes since the adapter was constructed
    jobs,         \* one record per cronTick invocation, in invocation order
    timeline,     \* history: one record per clock instant that has occurred:
                  \* the time, whether the schedule activates at it, whether
                  \* the signal had fired, where start() was, and whether a
                  \* tick had failed by then
    cancelAt,     \* history: startPc when the cancellation signal fired
    body,         \* result of the last payload interpretation (SpecMessage)
    Namespace,    \* pingAdapter.Namespace
    Name,         \* pingAdapter.Name
    peer,         \* the namespace and name of another adapter (SpecSource)
    sources       \* the event sources of the two adapters (SpecSource)

\* the identity of the adapter and what SpecSource derives from it
ident == <<Namespace, Name, peer, sources>>

vars == <<Schedule, Data, startPc, startRet, cronRunning, stopFired, now, jobs,
          timeline, cancelAt, body, ident>>

(***************************************************************************)
(* Bounds of the model.                                                    *)
(***************************************************************************)
MaxTime == 2
MaxPayloadLen == 5
MaxNameLen == 2

(***************************************************************************)
(* cron.ParseStandard(a.Schedule)                                          *)
(*                                                                         *)
(* A field is [kind, n]: "star" is "*", "num" is the number n, "step" is   *)
(* "*/n", "word" is text that is no cron field, "desc" is a descriptor     *)
(* "@...": n = 1 for "@hourly", any other n for an unknown descriptor.     *)
(***************************************************************************)
Star == [kind |-> "star", n |-> 0]
Num(k) == [kind |-> "num", n |-> k]
Step(k) == [kind |-> "step", n |-> k]
Word == [kind |-> "word", n |-> 0]
Desc(k) == [kind |-> "desc", n |-> k]

\* bounds of the five fields of the standard parser: minute, hour, day of
\* month, month, day of week
FieldMin(pos) == IF pos \in {3, 4} THEN 1 ELSE 0
FieldMax(pos) ==
    CASE pos = 1 -> 59
      [] pos = 2 -> 23
      [] pos = 3 -> 31
      [] pos = 4 -> 12
      [] OTHER -> 6

\* getField: a field is accepted when it is "*", "*/n" with n > 0, or a
\* number within the bounds of its position
FieldOk(f, pos) ==
    CASE f.kind = "star" -> TRUE
      [] f.kind = "num" -> f.n >= FieldMin(pos) /\ f.n <= FieldMax(pos)
      [] f.kind = "step" -> f.n > 0
      [] OTHER -> FALSE

\* getField: the set of values an accepted field denotes
FieldValues(f, pos) ==
    CASE f.kind = "num" -> {f.n}
      [] f.kind = "step" ->
            {v \in FieldMin(pos)..FieldMax(pos) : (v - FieldMin(pos)) % f.n = 0}
      [] OTHER -> FieldMin(pos)..FieldMax(pos)

\* getRange sets the star bit for "*" and "*/n"
HasStar(f) == f.kind \in {"star", "step"}

NoSchedule == [ok |-> FALSE]

ParseStandard(spec) ==
    IF Len(spec) = 0 THEN NoSchedule
    ELSE IF spec[1].kind = "desc"
    THEN IF Len(spec) = 1 /\ spec[1].n = 1
         THEN [ok |-> TRUE, minute |-> {0}, hour |-> 0..23, dom |-> 1..31,
               month |-> 1..12, dow |-> 0..6, domStar |-> TRUE, dowStar |-> TRUE]
         ELSE NoSchedule
    ELSE IF Len(spec) # 5 THEN NoSchedule
    ELSE IF \E pos \in 1..5 : ~FieldOk(spec[pos], pos) THEN NoSchedule
    ELSE [ok |-> TRUE,
          minute |-> FieldValues(spec[1], 1), hour |-> FieldValues(spec[2], 2),
          dom |-> FieldValues(spec[3], 3), month |-> FieldValues(spec[4], 4),
          dow |-> FieldValues(spec[5], 5),
          domStar |-> HasStar(spec[3]), dowStar |-> HasStar(spec[5])]

\* The scheduler is started at 00:00 of the first day of a month, a
\* Thursday; the explored minutes all fall on that day.
StartDate == [dom |-> 1, month |-> 1, dow |-> 4]

\* dayMatches: with a star in either day field both must match, else either
DayMatches(sched) ==
    IF sched.domStar \/ sched.dowStar
    THEN StartDate.dom \in sched.dom /\ StartDate.dow \in sched.dow
    ELSE StartDate.dom \in sched.dom \/ StartDate.dow \in sched.dow

\* The schedule activates at minute t.
Matches(sched, t) ==
    /\ sched.ok
    /\ (t % 60) \in sched.minute
    /\ ((t \div 60) % 24) \in sched.hour
    /\ StartDate.month \in sched.month
    /\ DayMatches(sched)

SampleSchedules ==
    { <<Star, Star, Star, Star, Star>>,         \* "* * * * *"
      <<Step(2), Star, Star, Star, Star>>,      \* "*/2 * * * *"
      <<Desc(1)>>,                              \* "@hourly"
      <<Num(60), Star, Star, Star, Star>>,      \* "60 * * * *"
      <<Star, Star, Star, Star>>,               \* "* * * *"
      <<Word, Star, Star, Star, Star>>,         \* "x * * * *"
      <<Desc(0)>>,                              \* "@bogus"
      << >> }                                   \* ""

(***************************************************************************)
(* message(body): json.Unmarshal into map[string]*json.RawMessage          *)
(*                                                                         *)
(* Lexemes: "{" "}" "[" "]" ":" "," ; "s" a string literal; "1" a number;  *)
(* "null" the literal null; " " whitespace; "x" text that is no JSON.      *)
(***************************************************************************)
Lexemes == {"{", "}", "[", "]", ":", ",", "s", "1", "null", " ", "x"}

RECURSIVE SkipWS(_, _)
SkipWS(s, i) == IF i <= Len(s) /\ s[i] = " " THEN SkipWS(s, i + 1) ELSE i

\* The scanner: ParseValue(s, i) is the index after the JSON value that
\* starts at s[i], or 0 when no value starts there.
RECURSIVE ParseValue(_, _), ParseElems(_, _), ParseMembers(_, _)
ParseValue(s, i) ==
    IF i > Len(s) THEN 0
    ELSE IF s[i] \in {"s", "1", "null"} THEN i + 1
    ELSE IF s[i] = "[" THEN
        LET j == SkipWS(s, i + 1) IN
        IF j <= Len(s) /\ s[j] = "]" THEN j + 1 ELSE ParseElems(s, j)
    ELSE IF s[i] = "{" THEN
        LET j == SkipWS(s, i + 1) IN
        IF j <= Len(s) /\ s[j] = "}" THEN j + 1 ELSE ParseMembers(s, j)
    ELSE 0

\* elements of an array after "[" or ",": value (, value)* ]
ParseElems(s, i) ==
    LET e == ParseValue(s, i) IN
    IF e = 0 THEN 0
    ELSE LET j == SkipWS(s, e) IN
         IF j > Len(s) THEN 0
         ELSE IF s[j] = "]" THEN j + 1
         ELSE IF s[j] = "," THEN ParseElems(s, SkipWS(s, j + 1))
         ELSE 0

\* members of an object after "{" or ",": string : value (, string : value)* }
ParseMembers(s, i) ==
    IF i > Len(s) \/ s[i] # "s" THEN 0
    ELSE LET c == SkipWS(s, i + 1) IN
         IF c > Len(s) \/ s[c] # ":" THEN 0
         ELSE LET e == ParseValue(s, SkipWS(s, c + 1)) IN
              IF e = 0 THEN 0
              ELSE LET j == SkipWS(s, e) IN
                   IF j > Len(s) THEN 0
                   ELSE IF s[j] = "}" THEN j + 1
                   ELSE IF s[j] = "," THEN ParseMembers(s, SkipWS(s, j + 1))
                   ELSE 0

\* checkValid: the whole input is one JSON value between optional whitespace
CheckValid(s) ==
    LET e == ParseValue(s, SkipWS(s, 1)) IN
    e # 0 /\ SkipWS(s, e) > Len(s)

\* The decoded members of the object whose first member starts at s[i]:
\* key -> raw value text; a null value leaves the *json.RawMessage nil.
NilRaw == <<"nil">>
RECURSIVE DecodeMembers(_, _, _)
DecodeMembers(s, i, acc) ==
    IF s[i] = "}" THEN acc
    ELSE LET v == SkipWS(s, SkipWS(s, i + 1) + 1)
             e == ParseValue(s, v)
             raw == IF s[v] = "null" THEN NilRaw ELSE SubSeq(s, v, e - 1)
             j == SkipWS(s, e)
             acc2 == [k \in DOMAIN acc \cup {s[i]} |-> IF k = s[i] THEN raw ELSE acc[k]]
         IN IF s[j] = "," THEN DecodeMembers(s, SkipWS(s, j + 1), acc2) ELSE acc2

EmptyMap == [k \in {} |-> NilRaw]

\* Variant of Unmarshal: leading whitespace is not skipped before the kind of
\* the value is looked at.
UnmarshalNoLeadingSpace(s) ==
    IF ~CheckValid(s) THEN [err |-> TRUE, isNil |-> TRUE, entries |-> EmptyMap]
    ELSE CASE s[1] = "{" ->
                [err |-> FALSE, isNil |-> FALSE,
                 entries |-> DecodeMembers(s, SkipWS(s, 2), EmptyMap)]
           [] s[1] = "null" ->
                [err |-> FALSE, isNil |-> TRUE, entries |-> EmptyMap]
           [] OTHER ->
                [err |-> TRUE, isNil |-> TRUE, entries |-> EmptyMap]

\* json.Unmarshal([]byte(body), &obj) with obj a nil map[string]*json.RawMessage:
\* a syntax error for text that is not one JSON value; an object fills the
\* map; the literal null leaves obj as it is and is no error; any other kind
\* of value is a type error.
Unmarshal(s) ==
    IF ~CheckValid(s) THEN [err |-> TRUE, isNil |-> TRUE, entries |-> EmptyMap]
    ELSE LET i == SkipWS(s, 1) IN
         CASE s[i] = "{" ->
                [err |-> FALSE, isNil |-> FALSE,
                 entries |-> DecodeMembers(s, SkipWS(s, i + 1), EmptyMap)]
           [] s[i] = "null" ->
                [err |-> FALSE, isNil |-> TRUE, entries |-> EmptyMap]
           [] OTHER ->
                [err |-> TRUE, isNil |-> TRUE, entries |-> EmptyMap]

Message(b) == [kind |-> "Message", Body |-> b]

message(b) ==
    LET r == Unmarshal(b) IN
    IF r.err THEN Message(b)
    ELSE [kind |-> "map", isNil |-> r.isNil, entries |-> r.entries]

(***************************************************************************)
(* The adapter: start() and cronTick()                                     *)
(***************************************************************************)
\* The payload of the adapter whose life cycle is explored; SpecMessage
\* covers the interpretation of every other payload.
SampleData == { <<"{", "s", ":", "1", "}">> }    \* {"s":1}

\* cloudevents.ContextWithRetriesExponentialBackoff(ctx, 50*time.Millisecond, 5)
MaxTries == 5

NoData == [kind |-> "none"]

\* cloudevents.ContextWithRetriesExponentialBackoff(ctx, 50*time.Millisecond, 5):
\* the backoff period, in milliseconds
Period == 50

\* Variant of BackoffFor: the period is taken in seconds.
BackoffForSeconds(tries) == Period * 1000 * 2^tries

\* The exponential strategy that line 106 selects: the wait after `tries`
\* attempts is the period times 2^tries.
BackoffFor(tries) == Period * 2^tries

\* Variant of TooManyRetries: one more retry is allowed.
TooManyRetriesOffByOne(tries) == tries > MaxTries + 1

\* The last argument of line 106 is the maximum number of retries: after a
\* failed attempt the sender backs off and tries again unless the number of
\* attempts already made (tries) exceeds it.
TooManyRetries(tries) == tries > MaxTries

\* The characters of the names and namespaces: validated object names hold
\* no "/".
NameChars == {"a", "b"}

Names == UNION {[1..n -> NameChars] : n \in 1..MaxNameLen}

\* sourcesv1alpha2.PingSourceSource(namespace, name): the source identifier
\* of a ping source, the path of the object: the namespace and the name, each
\* behind its own path segment.
PingSourceSource(namespace, name) ==
    <<"/apis/v1/namespaces/">> \o namespace \o <<"/pingsources/">> \o name

\* Variant of EventSource: the namespace is left out of the source.
EventSourceOfNameOnly(namespace, name) == PingSourceSource(<< >>, name)

\* cronTick, line 110: event.SetSource(PingSourceSource(a.Namespace, a.Name))
EventSource(namespace, name) == PingSourceSource(namespace, name)

\* A cronTick invocation, started at `instant`.
\*   pc:       "build" event not built yet; "send" inside Client.Send;
\*             "done" cronTick has returned
\*   source:   the source of the event, empty while the event is not built
\*   data:     the data of the event, NoData while it is not set
\*   calls:    number of calls of Client.Send made by this invocation
\*   attempts: protocol-level send attempts made so far inside Client.Send
\*   backoff:  milliseconds spent backing off between the attempts so far
\*   result:   "none" | "ok" | "fail": what Client.Send returned
NewJob(t) ==
    [instant |-> t, pc |-> "build", source |-> << >>, data |-> NoData, calls |-> 0,
     attempts |-> 0, backoff |-> 0, result |-> "none"]

\* A tick has failed: its data was not set, or Client.Send returned an error.
Failed(j) == (j.pc # "build" /\ j.data = NoData) \/ j.result = "fail"

SomeFailed(js) == \E i \in 1..Len(js) : Failed(js[i])

Init ==
    /\ Schedule \in SampleSchedules
    /\ Data \in SampleData
    /\ startPc = "init"
    /\ startRet = "none"
    /\ cronRunning = FALSE
    /\ stopFired = FALSE
    /\ now = 0
    /\ jobs = << >>
    /\ timeline = << >>
    /\ cancelAt = "never"
    /\ body = NoData
    /\ Namespace = <<"a">>
    /\ Name = <<"b">>
    /\ peer = <<Namespace, Name>>
    /\ sources = << >>

\* Variant of StartFails: the parse error is ignored.
StartFailsNever(spec) == FALSE

\* start(), line 89: err != nil after cron.ParseStandard(a.Schedule)
StartFails(spec) == ~ParseStandard(spec).ok

\* Variant of StartResult: a failed tick is reported to the caller.
StartResultPropagates(js) == IF SomeFailed(js) THEN "err" ELSE "nil"

\* start(), line 98: the value returned after the scheduler was stopped;
\* js is the state of the ticks at that moment
StartResult(js) == "nil"

\* start(), lines 88-91: the schedule does not parse
StartFail ==
    /\ startPc = "init"
    /\ StartFails(Schedule)
    /\ startPc' = "returned"
    /\ startRet' = "err"
    /\ UNCHANGED <<Schedule, Data, cronRunning, stopFired, now, jobs, timeline, cancelAt, body, ident>>

\* start(), lines 88-95: the schedule parses; the scheduler is created, given
\* cronTick as its job, and started; start() then blocks on stopCh
StartOk ==
    /\ startPc = "init"
    /\ ~StartFails(Schedule)
    /\ cronRunning' = TRUE
    /\ startPc' = "waiting"
    /\ UNCHANGED <<Schedule, Data, startRet, stopFired, now, jobs, timeline, cancelAt, body, ident>>

\* Variant of StopObserved: the receive does not block.
StopObservedAlways(fired) == TRUE

\* start(), line 96: the receive from stopCh completes once the channel is
\* closed
StopObserved(fired) == fired

\* start(), line 96: <-stopCh
AwaitStop ==
    /\ startPc = "waiting"
    /\ StopObserved(stopFired)
    /\ startPc' = "stopping"
    /\ UNCHANGED <<Schedule, Data, startRet, cronRunning, stopFired, now, jobs,
                   timeline, cancelAt, body, ident>>

\* Variant of StoppedCron: the scheduler is left running.
StoppedCronForgotten(running) == running

\* c.Stop(): the scheduler starts no further job.  Jobs that are running are
\* left alone, and start() does not wait for them (the context that c.Stop()
\* returns is dropped).
StoppedCron(running) == FALSE

\* start(), lines 97-98: c.Stop(); return nil
CronStop ==
    /\ startPc = "stopping"
    /\ cronRunning' = StoppedCron(cronRunning)
    /\ startPc' = "returned"
    /\ startRet' = StartResult(jobs)
    /\ UNCHANGED <<Schedule, Data, stopFired, now, jobs, timeline, cancelAt, body, ident>>

\* The caller cancels the context: stopCh is closed.
Cancel ==
    /\ ~stopFired
    /\ stopFired' = TRUE
    /\ cancelAt' = startPc
    /\ UNCHANGED <<Schedule, Data, startPc, startRet, cronRunning, now, jobs,
                   timeline, body, ident>>

\* Variant of StartJobs: the job is registered twice, so that an activation
\* starts it twice.
StartJobsTwice(js, t) == Append(Append(js, NewJob(t)), NewJob(t))

\* Variant of StartJobs: an activation is skipped while an earlier tick is
\* still running.
StartJobsSkipIfRunning(js, t) ==
    IF \E i \in 1..Len(js) : js[i].pc # "done" THEN js ELSE Append(js, NewJob(t))

\* The jobs the scheduler starts at instant t: each activation of the entry
\* runs the job once, in a goroutine of its own (cron.New() installs no job
\* wrapper), so a tick never waits for an earlier one.
StartJobs(js, t) == Append(js, NewJob(t))

\* The clock reaches the next minute.  A running scheduler whose entry
\* activates at that instant starts the job (cronTick).
Advance ==
    /\ now < MaxTime
    /\ now' = now + 1
    /\ timeline' = Append(timeline,
                     [t |-> now + 1,
                      match |-> Matches(ParseStandard(Schedule), now + 1),
                      cancelled |-> stopFired, pc |-> startPc,
                      failed |-> SomeFailed(jobs)])
    /\ jobs' = IF cronRunning /\ Matches(ParseStandard(Schedule), now + 1)
               THEN StartJobs(jobs, now + 1)
               ELSE jobs
    /\ UNCHANGED <<Schedule, Data, startPc, startRet, cronRunning, stopFired,
                   cancelAt, body, ident>>

\* Variant of SendsAfterSetData: cronTick returns when SetData fails.
SendsAfterSetDataOnlyIfSet(setOk) == setOk

\* cronTick, lines 115-117 after lines 111-113: whether the event goes on to
\* Client.Send once SetData has returned (setOk: it returned no error)
SendsAfterSetData(setOk) == TRUE

\* Variant of TickBody: once a tick has failed, the payload is no longer
\* interpreted but wrapped.
TickBodyAfterFailure(d, js) == IF SomeFailed(js) THEN Message(d) ELSE message(d)

\* cronTick, line 111: the data handed to SetData is message(a.Data), whatever
\* the earlier ticks js did
TickBody(d, js) == message(d)

\* Variant of TickBlocked: a tick waits for the cancellation signal.
TickBlockedUntilSignal(fired, js, i) == ~fired

\* cronTick, lines 101-118: its context is context.Background() (line 102),
\* it receives from no channel and takes no lock, so neither the signal
\* (fired) nor the other ticks (js) hold the i-th tick up.
TickBlocked(fired, js, i) == FALSE

\* cronTick, lines 102-113: the event is built; SetData either sets the
\* data to message(a.Data) or returns an error, which is logged.  Unless
\* cronTick returns here, it calls Client.Send (line 115).
BuildEvent(i) ==
    /\ jobs[i].pc = "build"
    /\ ~TickBlocked(stopFired, jobs, i)
    /\ \E setOk \in BOOLEAN :
         jobs' = [jobs EXCEPT ![i] =
                    [@ EXCEPT !.source = EventSource(Namespace, Name),
                              !.data = IF setOk THEN TickBody(Data, jobs) ELSE NoData,
                              !.calls = IF SendsAfterSetData(setOk) THEN @ + 1 ELSE @,
                              !.pc = IF SendsAfterSetData(setOk) THEN "send" ELSE "done"]]
    /\ UNCHANGED <<Schedule, Data, startPc, startRet, cronRunning, stopFired, now,
                   timeline, cancelAt, body, ident>>

\* Variant of AfterSendFailure: a failed send stops the scheduler.
AfterSendFailureStops(running) == FALSE

\* The state of the scheduler after a tick whose send failed.
AfterSendFailure(running) == running

\* cronTick, lines 115-117: one attempt of Client.Send(ctx, event) under the
\* retry parameters of line 106.  The sink acknowledges the event ("ack") or
\* the attempt fails ("retry"); after a failed attempt the sender backs off
\* and tries again unless the retries are used up.  A failure of Client.Send
\* is logged and cronTick returns.
SendAttempt(i) ==
    /\ jobs[i].pc = "send"
    /\ ~TickBlocked(stopFired, jobs, i)
    /\ \E outcome \in {"ack", "retry"} :
         LET n == jobs[i].attempts + 1
             over == outcome = "retry" /\ TooManyRetries(n)
         IN /\ jobs' = [jobs EXCEPT ![i] =
                          [@ EXCEPT !.attempts = n,
                                    !.backoff = IF outcome = "retry" /\ ~over
                                                THEN @ + BackoffFor(n) ELSE @,
                                    !.pc = IF outcome = "ack" \/ over
                                           THEN "done" ELSE "send",
                                    !.result = IF outcome = "ack" THEN "ok"
                                               ELSE IF over THEN "fail" ELSE "none"]]
            /\ cronRunning' = IF over THEN AfterSendFailure(cronRunning)
                              ELSE cronRunning
    /\ UNCHANGED <<Schedule, Data, startPc, startRet, stopFired, now, timeline,
                   cancelAt, body, ident>>

Next ==
    \/ StartFail
    \/ StartOk
    \/ AwaitStop
    \/ CronStop
    \/ Cancel
    \/ Advance
    \/ \E i \in 1..Len(jobs) : BuildEvent(i)
    \/ \E i \in 1..Len(jobs) : SendAttempt(i)

Spec == Init /\ [][Next]_vars

\* A step of the i-th tick.
TickStep(i) == i <= Len(jobs) /\ (BuildEvent(i) \/ SendAttempt(i))

\* The ticks are goroutines of their own and every call they make returns:
\* a tick that can take a step eventually takes one.  Nothing is assumed of
\* start(), of the clock or of the cancellation signal.
FairTicks == Spec /\ \A i \in 1..MaxTime : WF_vars(TickStep(i))

(***************************************************************************)
(* Payload interpretation on its own: message() applied to every payload   *)
(* of at most MaxPayloadLen lexemes.                                       *)
(***************************************************************************)
MsgInit ==
    /\ Schedule = << >>
    /\ \E n \in 0..MaxPayloadLen : Data \in [1..n -> Lexemes]
    /\ startPc = "init"
    /\ startRet = "none"
    /\ cronRunning = FALSE
    /\ stopFired = FALSE
    /\ now = 0
    /\ jobs = << >>
    /\ timeline = << >>
    /\ cancelAt = "never"
    /\ body = NoData
    /\ Namespace = <<"a">>
    /\ Name = <<"b">>
    /\ peer = <<Namespace, Name>>
    /\ sources = << >>

\* cronTick, line 111: message(a.Data)
Interpret ==
    /\ body = NoData
    /\ body' = message(Data)
    /\ UNCHANGED <<Schedule, Data, startPc, startRet, cronRunning, stopFired, now,
                   jobs, timeline, cancelAt, ident>>

MsgNext == Interpret

SpecMessage == MsgInit /\ [][MsgNext]_vars

(***************************************************************************)
(* The event source on its own: the sources of two adapters, for every      *)
(* pair of identities with names of at most MaxNameLen characters.         *)
(***************************************************************************)
SrcInit ==
    /\ Schedule = << >>
    /\ Data = << >>
    /\ startPc = "init"
    /\ startRet = "none"
    /\ cronRunning = FALSE
    /\ stopFired = FALSE
    /\ now = 0
    /\ jobs = << >>
    /\ timeline = << >>
    /\ cancelAt = "never"
    /\ body = NoData
    /\ Namespace \in Names
    /\ Name \in Names
    /\ peer \in Names \X Names
    /\ sources = << >>

\* cronTick, line 110, in each of the two adapters
SetSources ==
    /\ sources = << >>
    /\ sources' = <<EventSource(Namespace, Name), EventSource(peer[1], peer[2])>>
    /\ UNCHANGED <<Schedule, Data, startPc, startRet, cronRunning, stopFired, now,
                   jobs, timeline, cancelAt, body, Namespace, Name, peer>>

SrcNext == SetSources

SpecSource == SrcInit /\ [][SrcNext]_vars

(***************************************************************************)
(* Properties                                                              *)
(***************************************************************************)
ValidSchedule == ParseStandard(Schedule).ok

\* the instants at which cronTick was invoked, in invocation order
JobInstants == [i \in 1..Len(jobs) |-> jobs[i].instant]

\* the instants of the history entries that satisfy P, in order of occurrence
InstantsWhere(P(_)) ==
    LET sel == SelectSeq(timeline, P) IN [i \in 1..Len(sel) |-> sel[i].t]

\* the event of tick j has been handed to Client.Send
HandedToSender(j) == j.pc \in {"send", "done"}

\* a matching instant that occurred between c.Start() and the cancellation
BeforeCancel(e) == e.match /\ e.pc = "waiting" /\ ~e.cancelled

\* a matching instant that occurred between c.Start() and c.Stop()
WhileStarted(e) == e.match /\ e.pc \in {"waiting", "stopping"}

\* a matching instant that occurred after start() returned
AfterReturn(e) == e.match /\ e.pc = "returned"

\* C1: start returns an error exactly when the schedule does not parse; with
\* a schedule that parses it returns nil, and only after the cancellation
\* signal fired, whatever the outcome of the ticks in between.
C1_ErrorIffUnparseable ==
    /\ startPc = "returned" => (startRet = "err" <=> ~ValidSchedule)
    /\ startPc = "returned" /\ ValidSchedule => startRet = "nil" /\ stopFired
    /\ startPc # "returned" => startRet = "none"

\* C1 witness: start returned nil after one tick failed to set its data and
\* another tick failed every send attempt.
C1_Witness ==
    /\ startRet = "nil"
    /\ \E i \in 1..Len(jobs) : jobs[i].pc = "done" /\ jobs[i].data = NoData
    /\ \E i \in 1..Len(jobs) :
         jobs[i].result = "fail" /\ jobs[i].attempts = MaxTries + 1

\* C2: with a schedule that does not parse the scheduler is never started,
\* cronTick is never invoked, no event is sent, and start returns an error,
\* whether or not and whenever the cancellation signal fires.
C2_InvalidScheduleNoTicks ==
    ~ValidSchedule =>
        /\ ~cronRunning
        /\ jobs = << >>
        /\ startPc \in {"init", "returned"}
        /\ startPc = "returned" => startRet = "err"

\* C2 witness: start returned an error, the signal fired and time went on.
C2_Witness ==
    /\ ~ValidSchedule
    /\ startRet = "err"
    /\ stopFired
    /\ Len(timeline) > 0

\* C3 as stated: once start has returned, cronTick has been invoked exactly
\* once for each matching instant that occurred between c.Start() and the
\* cancellation signal, in order, and not otherwise.
C3_ExactlyTheInstantsBeforeCancel ==
    ValidSchedule /\ startPc = "returned" => JobInstants = InstantsWhere(BeforeCancel)

\* C3 amended: cronTick is invoked exactly once for each matching instant
\* that occurs while the scheduler is started (between c.Start() and
\* c.Stop()), in the order of the instants; this includes an instant that
\* falls between the cancellation signal and c.Stop().
C3_OncePerInstantWhileStarted ==
    ValidSchedule => JobInstants = InstantsWhere(WhileStarted)

\* C3 witness: two ticks were invoked, one of them for an instant after the
\* cancellation signal, and start has returned.
C3_Witness ==
    /\ startPc = "returned"
    /\ Len(jobs) = 2
    /\ \E k \in 1..Len(timeline) : timeline[k].cancelled /\ WhileStarted(timeline[k])

\* C4: a tick that fails (data not set, or every send attempt failed) does
\* not stop the scheduler: as long as start waits for the cancellation
\* signal the scheduler runs, and every matching instant before the signal
\* has its cronTick invocation, whatever failed before.
C4_TickIndependence ==
    /\ startPc = "waiting" => cronRunning
    /\ \A k \in 1..Len(timeline) :
         BeforeCancel(timeline[k]) =>
            \E i \in 1..Len(jobs) : jobs[i].instant = timeline[k].t

\* C4 witness: a tick was invoked at an instant at which an earlier tick had
\* already failed every send attempt.
C4_Witness ==
    \E k \in 1..Len(timeline) :
        /\ BeforeCancel(timeline[k])
        /\ timeline[k].failed
        /\ \E i \in 1..Len(jobs) :
             /\ jobs[i].instant < timeline[k].t
             /\ jobs[i].result = "fail"
             /\ jobs[i].attempts = MaxTries + 1
        /\ \E i \in 1..Len(jobs) : jobs[i].instant = timeline[k].t

\* C5: a tick whose data could not be set does not hand its event to the
\* sender.
C5_NoSendWithoutData ==
    \A i \in 1..Len(jobs) : jobs[i].data = NoData => ~HandedToSender(jobs[i])

\* C6 as stated: at most 5 send attempts are made for one tick.
C6_AtMostFiveAttempts ==
    \A i \in 1..Len(jobs) : jobs[i].attempts <= 5

\* C6 amended: at most 6 send attempts are made for one tick (the first
\* attempt and at most 5 retries), and no attempt is made for a tick after
\* its 6th attempt or after an attempt succeeded.
C6_AtMostSixAttempts ==
    /\ [](\A i \in 1..Len(jobs) : jobs[i].attempts <= 6)
    /\ [][\A i \in 1..Len(jobs) :
            jobs[i].attempts = 6 \/ jobs[i].result = "ok"
                => jobs'[i].attempts = jobs[i].attempts]_vars

\* C6 witness: a tick has made its 6th attempt, and another tick stopped
\* after a successful attempt.
C6_Witness ==
    /\ \E i \in 1..Len(jobs) : jobs[i].attempts = 6 /\ jobs[i].pc = "done"
    /\ \E i \in 1..Len(jobs) :
         jobs[i].result = "ok" /\ jobs[i].attempts \in 2..5 /\ jobs[i].pc = "done"

\* the payload is the text of a JSON object
IsJSONObjectText(s) == CheckValid(s) /\ s[SkipWS(s, 1)] = "{"

\* raw is the text of one JSON value and occurs in s
IsRawValueOf(raw, s) ==
    /\ CheckValid(raw)
    /\ raw[1] # " " /\ raw[Len(raw)] # " "
    /\ \E a \in 1..Len(s) : \E b \in a..Len(s) : SubSeq(s, a, b) = raw

\* C7: every payload that is not the text of a JSON object is interpreted
\* as the wrapped record {body: payload}.
C7_WrappedUnlessObject ==
    body # NoData /\ ~IsJSONObjectText(Data) => body = Message(Data)

\* C8: every payload that is the text of a JSON object is interpreted as a
\* (non-nil) map from its keys to their raw JSON values, never as the
\* wrapped record.
C8_ObjectGivesMap ==
    body # NoData /\ IsJSONObjectText(Data) =>
        /\ body.kind = "map"
        /\ ~body.isNil
        /\ \A k \in DOMAIN body.entries :
             /\ k = "s"
             /\ body.entries[k] = NilRaw \/ IsRawValueOf(body.entries[k], Data)
        /\ (body.entries = EmptyMap) <=> (\A n \in 1..Len(Data) : Data[n] # ":")

\* C8 witness: an object with one member, interpreted as a map from its key
\* to the raw text of its value.
C8_Witness ==
    /\ body # NoData
    /\ IsJSONObjectText(Data)
    /\ Data = <<"{", "s", ":", "1", "}">>
    /\ body.kind = "map"
    /\ DOMAIN body.entries = {"s"}
    /\ body.entries["s"] = <<"1">>

\* C9 as stated: when the cancellation signal fires after c.Start() and
\* before any matching instant, start returns nil and no event is ever
\* handed to the sender.
C9_NoEventAfterEarlyCancel ==
    /\ ValidSchedule
    /\ cancelAt = "waiting"
    /\ \A k \in 1..Len(timeline) :
         timeline[k].match => timeline[k].cancelled
    => /\ \A i \in 1..Len(jobs) : ~HandedToSender(jobs[i])
       /\ startPc = "returned" => startRet = "nil"

\* C9 amended: when the cancellation signal fires after c.Start() and no
\* matching instant occurs before start has stopped the scheduler (c.Stop()),
\* start returns nil, cronTick is never invoked and no event is ever handed
\* to the sender.
C9_NoEventWhenStoppedBeforeTick ==
    /\ ValidSchedule
    /\ cancelAt = "waiting"
    /\ \A k \in 1..Len(timeline) : ~WhileStarted(timeline[k])
    => /\ jobs = << >>
       /\ startPc = "returned" => startRet = "nil"

\* C9 witness: start returned nil, and a matching instant occurred after it
\* returned and none before.
C9_Witness ==
    /\ ValidSchedule
    /\ cancelAt = "waiting"
    /\ startRet = "nil"
    /\ \A k \in 1..Len(timeline) : ~WhileStarted(timeline[k])
    /\ \E k \in 1..Len(timeline) : AfterReturn(timeline[k])
    /\ jobs = << >>

\* C10: no cronTick invocation begins once start has returned: no tick
\* belongs to an instant that occurred after the return.
C10_NoTickAfterReturn ==
    \A i \in 1..Len(jobs) : \A k \in 1..Len(timeline) :
        timeline[k].t = jobs[i].instant => timeline[k].pc # "returned"

\* C10 witness: start returned nil after a tick, and a matching instant
\* occurred after the return.
C10_Witness ==
    /\ startRet = "nil"
    /\ Len(jobs) > 0
    /\ \E k \in 1..Len(timeline) : AfterReturn(timeline[k])

\* C11: with a schedule that parses, start gets past <-stopCh, stops the
\* scheduler and returns nil only after the cancellation signal has fired,
\* however many ticks ran or failed before.
C11_ReturnsOnlyAfterSignal ==
    ValidSchedule =>
        /\ startPc \in {"stopping", "returned"} => stopFired
        /\ startRet = "nil" => stopFired
        /\ startPc # "init" /\ ~stopFired => cronRunning /\ startRet = "none"

\* C11 witness: start has returned nil; the signal fired while start was
\* blocked, after two ticks were invoked and one of them had failed.
C11_Witness ==
    /\ startRet = "nil"
    /\ stopFired
    /\ cancelAt = "waiting"
    /\ Len(jobs) = 2
    /\ \E k \in 1..Len(timeline) : timeline[k].failed /\ ~timeline[k].cancelled

\* C12: every cronTick invocation calls Client.Send exactly once, for the one
\* event it has built: never twice, and once as soon as the event is built,
\* also when its data could not be set; so a finished tick has handed exactly
\* one event to the sender.
C12_OneSendPerTick ==
    \A i \in 1..Len(jobs) :
        /\ jobs[i].calls <= 1
        /\ jobs[i].calls = 1 <=> HandedToSender(jobs[i])
        /\ jobs[i].pc = "done" => jobs[i].calls = 1
        /\ jobs[i].attempts > 0 => jobs[i].calls = 1

\* C12 witness: two ticks have finished, one of them without data, and each
\* has made its one call.
C12_Witness ==
    /\ Len(jobs) = 2
    /\ \A i \in 1..Len(jobs) : jobs[i].pc = "done" /\ jobs[i].calls = 1
    /\ jobs[1].data = NoData
    /\ jobs[2].data # NoData

\* C13: the event source is determined by the namespace and the name, and
\* two adapters have the same source only if they have the same namespace
\* and the same name.
C13_SourceInjective ==
    sources # << >> =>
        (sources[1] = sources[2] <=> <<Namespace, Name>> = peer)

\* C13 witness: two different identities whose namespace and name run
\* together to the same text have different sources.
C13_Witness ==
    /\ sources # << >>
    /\ <<Namespace, Name>> # peer
    /\ Namespace \o Name = peer[1] \o peer[2]
    /\ sources[1] # sources[2]

\* a tick that has been invoked and has not returned
InFlight(j) == j.pc # "done"

\* C14 as stated: at most one tick is in flight at any time.
C14_AtMostOneInFlight ==
    Cardinality({i \in 1..Len(jobs) : InFlight(jobs[i])}) <= 1

\* C14 amended: ticks are started one at a time, in the order of their
\* instants and at most one per instant, each in a goroutine of its own; a
\* tick does not wait for the earlier ones, so ticks can be in flight
\* together.
C14_StartedOneByOne ==
    /\ \A i \in 1..Len(jobs) : \A j \in 1..Len(jobs) :
         i < j => jobs[i].instant < jobs[j].instant
    /\ \A i \in 1..Len(jobs) :
         \E k \in 1..Len(timeline) :
            timeline[k].t = jobs[i].instant /\ WhileStarted(timeline[k])

\* C14 witness: the first tick is still retrying its send while the second
\* tick is inside its own send.
C14_Witness ==
    /\ Len(jobs) = 2
    /\ jobs[1].pc = "send" /\ jobs[1].attempts >= 1
    /\ jobs[2].pc = "send"

\* C15: once start has returned no tick is running any more, so that no
\* send attempt happens after the return.
C15_NoTickRunningAfterReturn ==
    startPc = "returned" => \A i \in 1..Len(jobs) : ~InFlight(jobs[i])

\* C16: a tick in flight stalls nothing: every matching instant while the
\* scheduler is started has its tick, whatever the earlier ticks are doing;
\* start can always take its next step once the signal has fired; and every
\* tick in flight can take its next step.
C16_NoStall ==
    /\ \A k \in 1..Len(timeline) :
         WhileStarted(timeline[k]) =>
            \E i \in 1..Len(jobs) : jobs[i].instant = timeline[k].t
    /\ startPc = "waiting" /\ stopFired => ENABLED AwaitStop
    /\ startPc = "stopping" => ENABLED CronStop
    /\ now < MaxTime => ENABLED Advance
    /\ \A i \in 1..Len(jobs) :
         /\ jobs[i].pc = "build" => ENABLED BuildEvent(i)
         /\ jobs[i].pc = "send" => ENABLED SendAttempt(i)

\* C16 witness: the first tick is still inside its send after several
\* attempts; meanwhile the second tick was invoked and has finished, and
\* start has returned.
C16_Witness ==
    /\ Len(jobs) = 2
    /\ jobs[1].pc = "send" /\ jobs[1].attempts >= 2
    /\ jobs[2].pc = "done"
    /\ startRet = "nil"

\* C17: every tick of an adapter sets the same data, the interpretation of
\* the payload of the adapter, whatever happened on the earlier ticks.
C17_SameBodyEveryTick ==
    \A i \in 1..Len(jobs) :
        jobs[i].data # NoData =>
            /\ jobs[i].data = message(Data)
            /\ \A j \in 1..Len(jobs) :
                 jobs[j].data # NoData => jobs[j].data = jobs[i].data

\* C17 witness: the second tick, invoked after the first tick had failed
\* its send, has set the same data as the first.
C17_Witness ==
    /\ Len(jobs) = 2
    /\ jobs[1].result = "fail" /\ jobs[1].data # NoData
    /\ jobs[2].data = jobs[1].data
    /\ \E k \in 1..Len(timeline) :
         timeline[k].t = jobs[2].instant /\ timeline[k].failed

\* C18: the backoff delays of one tick add up to less than 60 seconds.
C18_BackoffUnderAMinute ==
    \A i \in 1..Len(jobs) : jobs[i].backoff < 60000

\* C18 witness: a tick has used all its retries and has backed off between
\* every two attempts, 3100 milliseconds altogether.
C18_Witness ==
    \E i \in 1..Len(jobs) :
        /\ jobs[i].attempts = MaxTries + 1
        /\ jobs[i].result = "fail"
        /\ jobs[i].backoff = 3100

\* C19: every tick that is invoked returns, whatever start(), the other
\* ticks and the cancellation signal do.
C19_EveryTickTerminates ==
    \A i \in 1..MaxTime :
        [](i <= Len(jobs) => <>(i <= Len(jobs) /\ jobs[i].pc = "done"))

\* C19 witness: a tick has returned after using all its retries while the
\* signal has not fired and an earlier tick is still in flight.
C19_Witness ==
    /\ ~stopFired
    /\ Len(jobs) = 2
    /\ InFlight(jobs[1])
    /\ jobs[2].pc = "done" /\ jobs[2].attempts = MaxTries + 1

====
